---- MODULE Spec2Model ----
(***************************************************************************)
(* The store-and-forward pipeline of jsliacan/sensors: BicycleSensor.py    *)
(* (the base class of every sensor) and sensor.py (the older template,     *)
(* class Sensor).  Two threads share _file, _filename, _upload_queue,      *)
(* _alive and upload_event without a lock: the main thread (constructor,   *)
(* measurement loop, signal handler) and the upload thread.  Every access  *)
(* of a shared attribute is one step.  The pending and uploaded            *)
(* directories are sets of file names; a name is the sequence of digits    *)
(* that strftime produces, so that sorted() is a real lexicographic sort.  *)
(***************************************************************************)
EXTENDS Integers, Sequences, FiniteSets, TLC

VARIABLES
  variant,     \* which class runs: "BicycleSensor" or "Sensor"
  watch,       \* which history is recorded: "order", "shutdown", "delivery"; none
               \* for "startup" and "network"; "stuck" and then "removed" in the
               \* runs with an operator
  clock,       \* wall clock in whole seconds, as last read by datetime.now()
  alive,       \* self._alive
  event,       \* self.upload_event is set
  queue,       \* self._upload_queue
  file,        \* self._file: <<>> is None, <<h>> a file object
  fname,       \* self._filename: <<>> until first assigned
  pending,     \* regular files in pending/
  dirs,        \* entries of pending/ that are not regular files
  uploaded,    \* files in uploaded/
  locs,        \* what the names pending and uploaded are in the working directory:
               \* "dir", "absent", "file" (a regular file), "blocked" (absent, and
               \* cannot be created)
  pc,          \* position of each thread
  phase,       \* main thread: "init" (constructor), "loop", "final"
  wret,        \* where write_to_file was called from: "header" or "meas"
  ufinal,      \* upload thread has left its while loop
  ufile,       \* local variable filename of _upload_data
  hpc,         \* signal handler: "idle" or "set" (between its two statements)
  nrot,        \* periodic rotations started in this run
  openCount,   \* file objects opened for writing and not closed
  enqLog,      \* history: names put on the queue in this run, in order
  archLog,     \* history: names moved to uploaded/ in this run, in order
  acked,       \* history: names whose request was answered 200 in this run
  created,     \* history: names opened by trigger_upload, first creation order
  netFailed,   \* history: the endpoint has failed (status not 200, or no answer)
  trigAfter,   \* history: trigger_upload calls begun after the shutdown request
  drainAfter,  \* history: _upload_data calls begun after the shutdown request
  lastSeg,     \* history: <<name>> of the segment open at the shutdown request
  lastPushed,  \* history: that segment has been appended to the queue
  lastDrained, \* history: a drain round began after that append
  obs          \* history: what the main thread's current trigger_upload call has done

vars == <<variant, watch, clock, alive, event, queue, file, fname, pending, dirs,
          uploaded, locs, pc, phase, wret, ufinal, ufile, hpc, nrot,
          openCount, enqLog, archLog, acked, created, netFailed, trigAfter,
          drainAfter, lastSeg, lastPushed, lastDrained, obs>>

shared == <<alive, event, queue, file, fname>>
disk   == <<pending, dirs, uploaded>>
ctl    == <<phase, wret, ufinal, ufile, hpc, nrot>>
hist0  == <<enqLog, archLog, acked, created, netFailed, trigAfter, drainAfter,
            lastSeg, lastPushed, lastDrained>>
hist   == <<hist0, obs>>
env    == <<variant, watch, clock, locs>>

-----------------------------------------------------------------------------
(* Bounds *)

MaxClock     == 3   \* last second the wall clock reaches
FirstSecond  == 2   \* second at which the process starts
MaxRotations == 1   \* periodic rotations per process run
MaxEntries   == 3   \* entries of pending/ that the constructor is tried on
MaxRecords   == 3   \* records of a segment that are counted

Digits == 0..2
Base   == Cardinality(Digits)

Variants == {"BicycleSensor", "Sensor"}
Threads  == {"main", "upl"}

-----------------------------------------------------------------------------
(* File names and sorting *)

\* a rendering without zero padding
Unpadded(t) == IF t < Base THEN <<t>> ELSE <<t \div Base, t % Base>>

\* strftime('%Y%m%d_%H%M%S'): a fixed-width, zero-padded rendering of the second
Format(t) == <<t \div Base, t % Base>>

\* Python's str comparison: first differing character decides, a proper prefix is smaller
LexLess(a, b) ==
  \E k \in 1..(Len(b)) :
     /\ \A i \in 1..(k-1) : i <= Len(a) /\ a[i] = b[i]
     /\ \/ k = Len(a) + 1
        \/ k <= Len(a) /\ a[k] < b[k]

LexLeq(a, b) == a = b \/ LexLess(a, b)

\* sorted(): ascending in Python's str order
RECURSIVE SortedLex(_)
SortedLex(S) ==
  IF S = {} THEN <<>>
  ELSE LET m == CHOOSE x \in S : \A y \in S : LexLeq(x, y)
       IN  <<m>> \o SortedLex(S \ {m})

\* a listing that forgets the isfile filter
UnfilteredSorted(files, others) == SortedLex(files \cup others)

\* deque(sorted([... for f in os.listdir('pending') if os.path.isfile(...)]))
RecoverQueue(files, others) == SortedLex(files)

Range(s) == {s[i] : i \in 1..Len(s)}

\* the names that trigger_upload gives to segments
IsSegmentName(n) == \E t \in 0..MaxClock : n = Format(t)

\* pre-existing entries of pending/: an older segment, and a file with a foreign name
OldFiles == {Format(0), <<1>>}
OldDirs  == {<<0>>}

-----------------------------------------------------------------------------
(* Control flow helpers *)

Goto(th, lbl) == pc' = [pc EXCEPT ![th] = lbl]

\* the main thread does not run while the signal handler is executing in it
Runs(th, lbl) == pc[th] = lbl /\ (th = "main" => hpc = "idle")

\* an exception that nothing catches
Escape(th) == "dead"

\* where an exception that trigger_upload or write_to_file lets escape ends up:
\* the try/except of main()'s loop, or the death of the thread
Catch(th) == IF th = "main" /\ phase = "loop" THEN "m_loop" ELSE "dead"

\* _upload_data returns: to upload_event.clear() in the loop, or to the end of the thread
EndRound == IF ufinal THEN "done" ELSE "u_clear"

IsOpen(f) == f # <<>> /\ ~f[1].closed

\* the history of one kind is recorded only in the runs that watch it; the runs that
\* watch a delivery record the order too, and count the records written
Order == watch \in {"order", "delivery"}
Shut  == watch = "shutdown"

\* no trigger_upload call of the main thread is under way, no record written yet:
\* prev is the segment the call found open, ev what the call has done, recs the
\* records written to the open segment, sent those of the segment pushed last,
\* failed the names whose last open() failed, late whether the call began after a
\* shutdown request, unseen whether _upload_data has yet to look at the queue since
\* the main thread's last push
NoCall == [prev |-> <<>>, ev |-> <<>>, recs |-> 0, sent |-> 0, failed |-> {},
           late |-> FALSE, unseen |-> FALSE]

\* the main thread has done e: a statement of its current trigger_upload call, or
\* the write of a complete record
Note(th, e) ==
  obs' = IF ~Order \/ th # "main" THEN obs
         ELSE CASE e = "record" ->
                     IF watch = "delivery" /\ obs.recs < MaxRecords
                     THEN [obs EXCEPT !.recs = @ + 1] ELSE obs
                [] e = "open" -> [obs EXCEPT !.ev = Append(@, e), !.recs = 0,
                                              !.failed = @ \ {fname}]
                [] e = "fail" -> [obs EXCEPT !.failed = @ \cup {fname}]
                [] e = "push" -> [obs EXCEPT !.ev = Append(@, e), !.sent = obs.recs,
                                              !.unseen = TRUE]
                [] OTHER -> [obs EXCEPT !.ev = Append(@, e)]

Bump(n, cond) == IF Shut /\ cond THEN n + 1 ELSE n

Finished(th) == pc[th] \in {"stopped", "done", "dead"}

\* both threads have ended, or the main thread has and the other was never started:
\* the process is gone
Stopped == pc["main"] \in {"stopped", "dead"} /\ pc["upl"] \in {"done", "dead", "u_new"}

-----------------------------------------------------------------------------
(* Construction: BicycleSensor.__init__ up to the start of the upload thread *)

\* the attributes as __init__ sets them, with q as the queue and the two threads at
\* the positions m and u
Attributes(v, w, files, others, q, m, u) ==
  /\ variant = v
  /\ watch = w
  /\ clock = FirstSecond
  /\ alive = TRUE
  /\ event = FALSE
  /\ pending = files
  /\ dirs = others
  /\ uploaded = {}
  /\ queue = q
  /\ file = <<>>
  /\ fname = <<>>
  /\ pc = [th \in Threads |-> IF th = "main" THEN m ELSE u]
  /\ phase = "init"
  /\ wret = "header"
  /\ ufinal = FALSE
  /\ ufile = <<>>
  /\ hpc = "idle"
  /\ nrot = 0
  /\ openCount = 0
  /\ enqLog = IF w = "order" THEN q ELSE <<>>
  /\ archLog = <<>>
  /\ acked = {}
  /\ created = IF w = "order" THEN SelectSeq(q, IsSegmentName) ELSE <<>>
  /\ netFailed = FALSE
  /\ trigAfter = 0
  /\ drainAfter = 0
  /\ lastSeg = <<>>
  /\ lastPushed = FALSE
  /\ lastDrained = FALSE
  /\ obs = NoCall

\* the two directories that the constructor needs
Locations == {"pending", "uploaded"}

\* both exist
Ready == [d \in Locations |-> "dir"]

\* the state that the constructor reaches, from the entries it finds in pending/
Constructed(v, w, files, others) ==
  /\ Attributes(v, w, files, others, RecoverQueue(files, others), "m_init", "u_loop")
  /\ locs = Ready

\* what pending/ holds when the process starts: any of the old files, and with all
\* of them possibly a subdirectory
Listings ==
  {l \in [files : SUBSET OldFiles, others : SUBSET OldDirs] :
      l.others = {} \/ l.files = OldFiles}

Init ==
  \E v \in Variants, l \in Listings : Constructed(v, "order", l.files, l.others)

\* BicycleSensor alone, with the history of the shutdown
InitShutdown ==
  \E l \in Listings :
     /\ l.files \subseteq {Format(0)}
     /\ Constructed("BicycleSensor", "shutdown", l.files, l.others)

\* every name of one or two characters
Entries == UNION {[1..n -> Digits] : n \in 1..2}

\* the constructor about to list a pending/ of up to MaxEntries entries, each a
\* regular file or not
InitRecovery ==
  \E v \in Variants :
  \E all \in {S \in SUBSET Entries : Cardinality(S) <= MaxEntries} :
  \E files \in SUBSET all :
     /\ Attributes(v, "order", files, all \ files, <<>>, "m_new", "u_new")
     /\ locs = Ready

\* os.makedirs(d, exist_ok=True) in BicycleSensor: raises when the name cannot be
\* created or is taken by something that is no directory.
\* if not os.path.exists(d): os.makedirs(d) in Sensor: a regular file of that name
\* passes the test, and nothing is created.
MakeDir(d) ==
  CASE locs[d] = "dir"     -> "dir"
    [] locs[d] = "absent"  -> "dir"
    [] locs[d] = "blocked" -> "raise"
    [] OTHER               -> IF variant = "BicycleSensor" THEN "raise" ELSE "file"

\* one of the two statements that create the directories; an exception ends the
\* constructor and with it the main thread
MMkdir(lbl, d, next) ==
  /\ pc["main"] = lbl
  /\ IF MakeDir(d) = "raise"
     THEN /\ Goto("main", "dead")
          /\ UNCHANGED locs
     ELSE /\ Goto("main", next)
          /\ locs' = [locs EXCEPT ![d] = MakeDir(d)]
  /\ UNCHANGED <<variant, watch, clock, shared, disk, ctl, openCount, hist>>

MMkPending == MMkdir("m_mkp", "pending", "m_mku")

MMkUploaded == MMkdir("m_mku", "uploaded", "m_new")

\* self._upload_queue = deque(sorted([...])) and the start of the upload thread;
\* os.listdir('pending') raises when pending is no directory
MNew ==
  /\ pc["main"] = "m_new"
  /\ IF locs["pending"] = "dir"
     THEN /\ queue' = RecoverQueue(pending, dirs)
          /\ enqLog' = IF watch = "order" THEN queue' ELSE enqLog
          /\ created' = IF watch = "order" THEN SelectSeq(queue', IsSegmentName)
                        ELSE created
          /\ pc' = [th \in Threads |-> IF th = "main" THEN "m_init" ELSE "u_loop"]
     ELSE /\ Goto("main", "dead")
          /\ UNCHANGED <<queue, enqLog, created>>
  /\ UNCHANGED <<alive, event, file, fname, disk, ctl, env, openCount, archLog, acked,
                 netFailed, trigAfter, drainAfter, lastSeg, lastPushed, lastDrained, obs>>

\* a constructor that ends without the first trigger_upload()
SkipFirstTrigger ==
  /\ Runs("main", "m_init")
  /\ Goto("main", "m_loop")
  /\ phase' = "loop"
  /\ UNCHANGED <<shared, disk, wret, ufinal, ufile, hpc, nrot, env, openCount, hist>>

\* the constructor's last statement: self.trigger_upload()
MInit ==
  /\ Runs("main", "m_init")
  /\ Goto("main", "t_test")
  /\ trigAfter' = Bump(trigAfter, ~alive)
  /\ UNCHANGED <<shared, disk, ctl, env, openCount, enqLog, archLog, acked, created,
                 netFailed, drainAfter, lastSeg, lastPushed, lastDrained, obs>>

-----------------------------------------------------------------------------
(* trigger_upload, one step per access of a shared attribute *)

\* a rotation that retires the current name whether or not a segment is open
PushUnopened(th) ==
  /\ Runs(th, "t_test")
  /\ Goto(th, IF file # <<>> THEN "t_close" ELSE "t_append")
  /\ obs' = IF Order /\ th = "main"
            THEN [obs EXCEPT !.prev = IF file # <<>> THEN <<file[1].name>> ELSE <<>>,
                             !.ev = <<>>, !.late = ~alive]
            ELSE obs
  /\ UNCHANGED <<shared, disk, ctl, env, openCount, hist0>>

\* a rotation that leaves a segment without records open instead of retiring it
SkipEmpty(th) ==
  /\ Runs(th, "t_test")
  /\ Goto(th, IF file # <<>> /\ obs.recs = 0 /\ phase = "loop" THEN "t_set"
              ELSE IF file # <<>> THEN "t_close" ELSE "t_name")
  /\ obs' = IF Order /\ th = "main"
            THEN [obs EXCEPT !.prev = IF file # <<>> THEN <<file[1].name>> ELSE <<>>,
                             !.ev = <<>>, !.late = ~alive]
            ELSE obs
  /\ UNCHANGED <<shared, disk, ctl, env, openCount, hist0>>

\* if self._file:
TTest(th) ==
  /\ Runs(th, "t_test")
  /\ Goto(th, IF file # <<>> THEN "t_close" ELSE "t_name")
  /\ obs' = IF Order /\ th = "main"
            THEN [obs EXCEPT !.prev = IF file # <<>> THEN <<file[1].name>> ELSE <<>>,
                             !.ev = <<>>, !.late = ~alive]
            ELSE obs
  /\ UNCHANGED <<shared, disk, ctl, env, openCount, hist0>>

\* a rotation that forgets to close the segment it retires
LeakFile(th) ==
  /\ Goto(th, "t_none")
  /\ UNCHANGED <<file, openCount>>

\* self._file.close(): AttributeError when the other thread has stored None meanwhile
CloseFile(th) ==
  IF file = <<>>
  THEN /\ Goto(th, Catch(th))
       /\ UNCHANGED <<file, openCount>>
  ELSE /\ Goto(th, "t_none")
       /\ file' = <<[file[1] EXCEPT !.closed = TRUE]>>
       /\ openCount' = IF IsOpen(file) THEN openCount - 1 ELSE openCount

TClose(th) ==
  /\ Runs(th, "t_close")
  /\ CloseFile(th)
  /\ IF file' # <<>> /\ file'[1].closed THEN Note(th, "close") ELSE UNCHANGED obs
  /\ UNCHANGED <<alive, event, queue, fname, disk, ctl, env, hist0>>

\* self._file = None
TNone(th) ==
  /\ Runs(th, "t_none")
  /\ file' = <<>>
  /\ Goto(th, "t_append")
  /\ UNCHANGED <<alive, event, queue, fname, disk, ctl, env, openCount, hist>>

\* a push that puts the segment in front of the waiting ones
PushFront(q, n) == <<n>> \o q

\* deque.append
PushQueue(q, n) == Append(q, n)

\* self._upload_queue.append(self._filename)
TAppend(th) ==
  /\ Runs(th, "t_append")
  /\ queue' = PushQueue(queue, fname)
  /\ enqLog' = IF Order THEN Append(enqLog, fname) ELSE enqLog
  /\ lastPushed' = (lastPushed \/ (Shut /\ ~alive /\ lastSeg = <<fname>>))
  /\ Note(th, "push")
  /\ Goto(th, "t_name")
  /\ UNCHANGED <<alive, event, file, fname, disk, ctl, env, openCount, archLog, acked,
                 created, netFailed, trigAfter, drainAfter, lastSeg, lastDrained>>

\* self._filename = os.path.join('pending', datetime.now().strftime(...)); the wall
\* clock does not run backwards, and two reads can fall into the same second
TName(th) ==
  /\ Runs(th, "t_name")
  /\ \E t \in {clock, clock + 1} :
        /\ t <= MaxClock
        /\ clock' = t
        /\ fname' = Format(t)
  /\ Goto(th, IF variant = "BicycleSensor" THEN "t_alive" ELSE "t_open")
  /\ UNCHANGED <<alive, event, queue, file, disk, ctl, variant, watch, locs, openCount,
                 hist>>

\* if self._alive:   (BicycleSensor only)
TAlive(th) ==
  /\ Runs(th, "t_alive")
  /\ Goto(th, IF alive THEN "t_open" ELSE "t_set")
  /\ UNCHANGED <<shared, disk, ctl, env, openCount, hist>>

\* self._file = open(self._filename, 'w'): creates or truncates; IOError -> except
OpenSegment(th, ok) ==
  IF ok /\ fname \notin dirs
  THEN /\ pending' = pending \cup {fname}
       /\ file' = <<[name |-> fname, closed |-> FALSE]>>
       /\ openCount' = openCount + 1
       /\ created' = IF Order /\ fname \notin Range(created)
                    THEN Append(created, fname) ELSE created
       /\ Goto(th, "t_header")
  ELSE /\ Goto(th, "t_fail")
       /\ UNCHANGED <<pending, file, openCount, created>>

TOpen(th) ==
  /\ Runs(th, "t_open")
  /\ \E ok \in BOOLEAN : OpenSegment(th, ok)
  /\ Note(th, IF pc'[th] = "t_header" THEN "open" ELSE "fail")
  /\ UNCHANGED <<alive, event, queue, fname, dirs, uploaded, ctl, env, enqLog, archLog,
                 acked, netFailed, trigAfter, drainAfter, lastSeg, lastPushed, lastDrained>>

\* self.write_header() (a subclass calls write_to_file) / self._file.write('time\n')
THeader(th) ==
  /\ Runs(th, "t_header")
  /\ IF variant = "BicycleSensor"
     THEN /\ wret' = "header"
          /\ Goto(th, "w_test")
          /\ UNCHANGED obs
     ELSE /\ Goto(th, "t_set")
          /\ Note(th, "header")
          /\ UNCHANGED wret
  /\ UNCHANGED <<shared, disk, phase, ufinal, ufile, hpc, nrot, env, openCount, hist0>>

\* except IOError: self._file = None
TFail(th) ==
  /\ Runs(th, "t_fail")
  /\ file' = <<>>
  /\ Goto(th, "t_set")
  /\ UNCHANGED <<alive, event, queue, fname, disk, ctl, env, openCount, hist>>

\* a trigger_upload that drains the queue itself, in whichever thread called it
DrainInline(th) == "d_loop"

\* where trigger_upload returns to
AfterTrigger(th) ==
  IF th = "upl" THEN "d_loop"
  ELSE IF phase \in {"init", "loop"} THEN "m_loop"
  ELSE IF variant = "BicycleSensor" THEN "m_join" ELSE "m_fclose"

\* self.upload_event.set(), and the return; in the upload thread the final
\* _upload_data() follows at once
TSet(th) ==
  /\ Runs(th, "t_set")
  /\ event' = TRUE
  /\ Goto(th, AfterTrigger(th))
  /\ phase' = IF th = "main" /\ phase = "init" THEN "loop" ELSE phase
  /\ drainAfter' = Bump(drainAfter, th = "upl" /\ ~alive)
  /\ lastDrained' = (lastDrained \/ (th = "upl" /\ lastPushed))
  /\ obs' = IF th = "main" THEN [obs EXCEPT !.prev = <<>>, !.ev = <<>>, !.late = FALSE]
            ELSE obs
  /\ UNCHANGED <<alive, queue, file, fname, disk, wret, ufinal, ufile, hpc, nrot, env,
                 openCount, enqLog, archLog, acked, created, netFailed, trigAfter,
                 lastSeg, lastPushed>>

-----------------------------------------------------------------------------
(* write_to_file (BicycleSensor) *)

WReturn == IF wret = "header" THEN "t_set" ELSE "m_time"

\* if self._file:
WTest(th) ==
  /\ Runs(th, "w_test")
  /\ Goto(th, IF file # <<>> THEN "w_data" ELSE WReturn)
  /\ UNCHANGED <<shared, disk, ctl, env, openCount, hist>>

\* one self._file.write(...): AttributeError on None and ValueError on a closed file
\* are no IOError and escape trigger_upload; a write of a record can fail with an
\* IOError when the buffer is flushed, the write of the header into the empty buffer
\* of a new file cannot
WriteTo(th, ok, next) ==
  IF ~IsOpen(file) THEN Catch(th)
  ELSE IF ok \/ wret = "header" THEN next
  ELSE Catch(th)

\* self._file.write(data)
WData(th) ==
  /\ Runs(th, "w_data")
  /\ \E ok \in BOOLEAN : Goto(th, WriteTo(th, ok, "w_nl"))
  /\ UNCHANGED <<shared, disk, ctl, env, openCount, hist>>

\* self._file.write('\n')
WNl(th) ==
  /\ Runs(th, "w_nl")
  /\ \E ok \in BOOLEAN : Goto(th, WriteTo(th, ok, WReturn))
  /\ IF pc'[th] = WReturn
     THEN Note(th, IF wret = "header" THEN "header" ELSE "record")
     ELSE UNCHANGED obs
  /\ UNCHANGED <<shared, disk, ctl, env, openCount, hist0>>

-----------------------------------------------------------------------------
(* main(): the measurement loop and what follows it *)

\* self.write_measurement(): a subclass writes a record with write_to_file, writes
\* nothing, or raises; Sensor writes to self._file directly (AttributeError on None)
Measure(o) ==
  IF variant = "BicycleSensor"
  THEN CASE o = "write" -> "w_test" [] o = "skip" -> "m_time" [] OTHER -> "m_loop"
  ELSE IF file # <<>> /\ o = "write" THEN "m_time" ELSE "m_loop"

\* while self._alive:  and the outcome of the write_measurement() that an iteration
\* begins with
MLoop ==
  /\ Runs("main", "m_loop")
  /\ IF alive
     THEN \E o \in {"write", "skip", "raise"} :
             /\ Goto("main", Measure(o))
             /\ wret' = IF Measure(o) = "w_test" THEN "meas" ELSE wret
             /\ IF variant = "Sensor" /\ Measure(o) = "m_time"
                THEN Note("main", "record") ELSE UNCHANGED obs
             /\ UNCHANGED phase
     ELSE /\ Goto("main", "m_final")
          /\ phase' = "final"
          /\ UNCHANGED <<wret, obs>>
  /\ UNCHANGED <<shared, disk, ufinal, ufile, hpc, nrot, env, openCount, hist0>>

\* if current_time - _time >= self._upload_interval: self.trigger_upload()
\* (time.time() and the interval are floats; whether the interval has elapsed is not
\* decided by the whole seconds that the file names show)
MTime ==
  /\ Runs("main", "m_time")
  /\ \E elapsed \in BOOLEAN :
        IF elapsed /\ nrot < MaxRotations
        THEN /\ Goto("main", "t_test")
             /\ nrot' = nrot + 1
             /\ trigAfter' = Bump(trigAfter, ~alive)
        ELSE /\ Goto("main", "m_loop")
             /\ UNCHANGED <<nrot, trigAfter>>
  /\ UNCHANGED <<shared, disk, phase, wret, ufinal, ufile, hpc, env, openCount, enqLog,
                 archLog, acked, created, netFailed, drainAfter, lastSeg, lastPushed,
                 lastDrained, obs>>

\* if self._file: self.trigger_upload()
MFinal ==
  /\ Runs("main", "m_final")
  /\ Goto("main", IF file # <<>> THEN "t_test" ELSE "m_join")
  /\ trigAfter' = Bump(trigAfter, file # <<>>)
  /\ UNCHANGED <<shared, disk, ctl, env, openCount, enqLog, archLog, acked, created,
                 netFailed, drainAfter, lastSeg, lastPushed, lastDrained, obs>>

\* Sensor.main only: self._file.close() after the final trigger_upload()
MFclose ==
  /\ Runs("main", "m_fclose")
  /\ IF file = <<>>
     THEN /\ Goto("main", "dead")
          /\ UNCHANGED <<file, openCount>>
     ELSE /\ Goto("main", "m_join")
          /\ file' = <<[file[1] EXCEPT !.closed = TRUE]>>
          /\ openCount' = IF IsOpen(file) THEN openCount - 1 ELSE openCount
  /\ UNCHANGED <<alive, event, queue, fname, disk, ctl, env, hist>>

\* self.upload_thread.join() (BicycleSensor); the interpreter's wait for the
\* non-daemon upload thread at exit (Sensor)
MJoin ==
  /\ Runs("main", "m_join")
  /\ Finished("upl")
  /\ Goto("main", "stopped")
  /\ UNCHANGED <<shared, disk, ctl, env, openCount, hist>>

-----------------------------------------------------------------------------
(* The upload thread: _upload_data_loop and _upload_data *)

\* while self._alive:  and, in BicycleSensor, the final self.trigger_upload() after it
ULoop ==
  /\ Runs("upl", "u_loop")
  /\ Goto("upl", IF alive THEN "u_wait"
                 ELSE IF variant = "BicycleSensor" THEN "t_test" ELSE "done")
  /\ ufinal' = ~alive
  /\ trigAfter' = Bump(trigAfter, ~alive /\ variant = "BicycleSensor")
  /\ UNCHANGED <<shared, disk, phase, wret, ufile, hpc, nrot, env, openCount, enqLog,
                 archLog, acked, created, netFailed, drainAfter, lastSeg, lastPushed,
                 lastDrained, obs>>

\* an uploader that polls the queue instead of waiting for the signal
BusyPoll ==
  /\ Runs("upl", "u_wait")
  /\ Goto("upl", "d_loop")
  /\ drainAfter' = Bump(drainAfter, ~alive)
  /\ lastDrained' = (lastDrained \/ lastPushed)
  /\ UNCHANGED <<shared, disk, ctl, env, openCount, enqLog, archLog, acked, created,
                 netFailed, trigAfter, lastSeg, lastPushed, obs>>

\* self.upload_event.wait(), then the call of self._upload_data()
UWait ==
  /\ Runs("upl", "u_wait")
  /\ event
  /\ Goto("upl", "d_loop")
  /\ drainAfter' = Bump(drainAfter, ~alive)
  /\ lastDrained' = (lastDrained \/ lastPushed)
  /\ UNCHANGED <<shared, disk, ctl, env, openCount, enqLog, archLog, acked, created,
                 netFailed, trigAfter, lastSeg, lastPushed, obs>>

\* a drain that takes the newest segment first
PeekLast(q) == q[Len(q)]

\* self._upload_queue[0]
PeekQueue(q) == Head(q)

\* while self._upload_queue: filename = self._upload_queue[0]
DLoop ==
  /\ Runs("upl", "d_loop")
  /\ IF queue # <<>>
     THEN /\ ufile' = PeekQueue(queue)
          /\ Goto("upl", "d_read")
     ELSE /\ Goto("upl", EndRound)
          /\ UNCHANGED ufile
  /\ obs' = IF Order THEN [obs EXCEPT !.unseen = FALSE] ELSE obs
  /\ UNCHANGED <<shared, disk, phase, wret, ufinal, hpc, nrot, env, openCount, hist0>>

\* a drain that drops a segment the endpoint refused and goes on with the next one
SkipOnFailure(r) == IF r = "200" THEN "d_move" ELSE "d_pop"

\* a drain that archives the segment whatever the endpoint answered
MoveRegardless(r) == "d_move"

\* what follows the answer r:  if r.status_code == 200: ... else: break; an exception
\* (the file cannot be read, the request times out) leaves _upload_data
AfterPost(r) == IF r = "200" THEN "d_move" ELSE EndRound

\* with open(filename, 'r') as file: csv_data = file.readlines()
\* r = requests.post(...): status 200, another status, or an exception
DPost ==
  /\ Runs("upl", "d_read")
  /\ \E r \in {"200", "500", "exc"} :
        LET readable == ufile \in pending
            answer   == IF readable THEN r ELSE "exc"
        IN  /\ Goto("upl", AfterPost(answer))
            /\ acked' = IF Order /\ answer = "200" THEN acked \cup {ufile} ELSE acked
            /\ netFailed' = (netFailed \/ (Order /\ readable /\ r # "200"))
  /\ UNCHANGED <<shared, disk, ctl, env, openCount, enqLog, archLog, created,
                 trigAfter, drainAfter, lastSeg, lastPushed, lastDrained, obs>>

\* shutil.move(filename, 'uploaded'): raises when uploaded/<name> exists already;
\* when uploaded is a regular file, the segment is renamed onto it and replaces it
MoveSegment ==
  IF ufile \in pending /\ locs["uploaded"] = "file"
  THEN /\ pending' = pending \ {ufile}
       /\ Goto("upl", "d_pop")
       /\ UNCHANGED <<uploaded, archLog, netFailed>>
  ELSE IF ufile \in pending /\ ufile \notin uploaded
  THEN /\ pending' = pending \ {ufile}
       /\ uploaded' = uploaded \cup {ufile}
       /\ archLog' = IF Order THEN Append(archLog, ufile) ELSE archLog
       /\ Goto("upl", "d_pop")
       /\ UNCHANGED netFailed
  ELSE /\ Goto("upl", EndRound)
       /\ UNCHANGED <<pending, uploaded, archLog, netFailed>>

DMove ==
  /\ Runs("upl", "d_move")
  /\ MoveSegment
  /\ UNCHANGED <<shared, dirs, ctl, env, openCount, enqLog, acked, created,
                 trigAfter, drainAfter, lastSeg, lastPushed, lastDrained, obs>>

\* a drain that forgets to remove the segment it has archived
KeepQueue(q) == q

\* a pop() in place of popleft(): removes the newest entry
PopRight(q) == SubSeq(q, 1, Len(q) - 1)

\* self._upload_queue.popleft()
PopQueue(q) == Tail(q)

DPop ==
  /\ Runs("upl", "d_pop")
  /\ queue' = PopQueue(queue)
  /\ Goto("upl", "d_loop")
  /\ UNCHANGED <<alive, event, file, fname, disk, ctl, env, openCount, hist>>

\* self.upload_event.clear()
UClear ==
  /\ Runs("upl", "u_clear")
  /\ event' = FALSE
  /\ Goto("upl", "u_loop")
  /\ UNCHANGED <<alive, queue, file, fname, disk, ctl, env, openCount, hist>>

-----------------------------------------------------------------------------
(* Termination requests *)

\* the segment that is open for writing, as <<name>>
OpenSeg == IF IsOpen(file) THEN <<file[1].name>> ELSE <<>>

\* _handle_shutdown, first statement: self._alive = False.  The handler runs in the
\* main thread, between two of its steps, for SIGTERM or SIGINT.  A second signal
\* repeats the same two assignments and changes nothing: only the first is a step.
Signal ==
  /\ variant = "BicycleSensor"
  /\ pc["upl"] # "u_new"
  /\ hpc = "idle"
  /\ alive
  /\ ~Stopped
  /\ alive' = FALSE
  /\ hpc' = "set"
  /\ lastSeg' = IF Shut THEN OpenSeg ELSE lastSeg
  /\ UNCHANGED <<event, queue, file, fname, disk, pc, phase, wret, ufinal, ufile, nrot,
                 env, openCount, enqLog, archLog, acked, created, netFailed, trigAfter,
                 drainAfter, lastPushed, lastDrained, obs>>

\* _handle_shutdown, second statement: self.upload_event.set()
HandlerSet ==
  /\ hpc = "set"
  /\ event' = TRUE
  /\ hpc' = "idle"
  /\ UNCHANGED <<alive, queue, file, fname, disk, pc, phase, wret, ufinal, ufile, nrot,
                 env, openCount, hist>>

\* Sensor has no handler: SIGINT raises KeyboardInterrupt in the main thread.  Inside
\* the try of main()'s loop it is caught (self._alive = False); elsewhere it ends the
\* main thread.
InTry == phase = "loop" /\ pc["main"] # "m_loop"

KeyboardInterrupt ==
  /\ variant = "Sensor"
  /\ pc["main"] \notin {"m_join", "stopped", "dead"}
  /\ IF InTry
     THEN /\ alive' = FALSE
          /\ Goto("main", "m_loop")
          /\ lastSeg' = IF Shut /\ alive THEN OpenSeg ELSE lastSeg
     ELSE /\ Goto("main", "dead")
          /\ UNCHANGED <<alive, lastSeg>>
  /\ UNCHANGED <<event, queue, file, fname, disk, ctl, env, openCount, enqLog, archLog,
                 acked, created, netFailed, trigAfter, drainAfter, lastPushed,
                 lastDrained, obs>>

-----------------------------------------------------------------------------
(* Specifications *)

Trigger(th) ==
  \/ TTest(th) \/ TClose(th) \/ TNone(th) \/ TAppend(th) \/ TName(th)
  \/ TAlive(th) \/ TOpen(th) \/ THeader(th) \/ TFail(th) \/ TSet(th)
  \/ WTest(th) \/ WData(th) \/ WNl(th)

MainBicycle ==
  \/ MInit \/ MLoop \/ MTime \/ MFinal \/ MJoin
  \/ Trigger("main")

MainStep == MainBicycle \/ MFclose

UploadStep ==
  \/ ULoop \/ UWait \/ DLoop \/ DPost \/ DMove \/ DPop \/ UClear
  \/ Trigger("upl")

\* the steps of BicycleSensor; those of Sensor are the same, with MFclose and
\* KeyboardInterrupt in place of Signal and HandlerSet
NextBicycle ==
  \/ MainBicycle
  \/ UploadStep
  \/ Signal
  \/ HandlerSet

Next ==
  \/ MainStep
  \/ UploadStep
  \/ Signal
  \/ HandlerSet
  \/ KeyboardInterrupt

\* one run of the process
Spec == Init /\ [][Next]_vars

\* one run of BicycleSensor, recording the history of its shutdown
SpecShutdown == InitShutdown /\ [][NextBicycle]_vars

\* one run that starts with pending/ empty, with the records counted
InitDelivery == \E v \in Variants : Constructed(v, "delivery", {}, {})

SpecDelivery == InitDelivery /\ [][Next]_vars

\* a process that finds two files of an earlier run in pending/, and an operator
InitStuck == \E v \in Variants : Constructed(v, "stuck", OldFiles, {})

\* the operator deletes the file at the head of the queue from pending/, once, while
\* the upload thread is between two rounds, the last of which peeked that file and
\* left it where it was
RemoveStuck ==
  /\ watch = "stuck"
  /\ pc["upl"] \in {"u_clear", "u_loop", "u_wait"}
  /\ queue # <<>>
  /\ ufile = Head(queue)
  /\ ufile \in pending
  /\ pending' = pending \ {ufile}
  /\ watch' = "removed"
  /\ UNCHANGED <<variant, clock, locs, shared, dirs, uploaded, pc, ctl, openCount, hist>>

SpecStuck == InitStuck /\ [][Next \/ RemoveStuck]_vars

\* the process from the first statement of its constructor, in a working directory
\* where each of the two names is a directory, absent, a regular file, or cannot
\* be created
InitStartup ==
  \E v \in Variants :
  \E l \in [Locations -> {"dir", "absent", "file", "blocked"}] :
  \E files \in SUBSET {Format(0)} :
     /\ l["pending"] # "dir" => files = {}
     /\ Attributes(v, "startup", files, {}, <<>>, "m_mkp", "u_new")
     /\ locs = l

Startup == MMkPending \/ MMkUploaded \/ MNew

SpecStartup == InitStartup /\ [][Startup \/ Next]_vars

\* a process that finds one file of an earlier run in pending/, with an endpoint
\* that may leave a request unanswered
InitNetwork == \E v \in Variants : Constructed(v, "network", {Format(0)}, {})

\* requests.post(...) without a timeout (Sensor): the endpoint accepts the
\* connection and never answers, and the call does not return.  BicycleSensor passes
\* timeout=10, and the call raises instead (the outcome "exc" of DPost).
DHang ==
  /\ variant = "Sensor"
  /\ Runs("upl", "d_read")
  /\ ufile \in pending
  /\ Goto("upl", "d_post")
  /\ UNCHANGED <<shared, disk, ctl, env, openCount, hist>>

SpecNetwork == InitNetwork /\ [][Next \/ DHang]_vars

\* the constructor alone, on every listing of pending/ within the bounds
SpecRecovery == InitRecovery /\ [][MNew]_vars

\* both threads are scheduled, and a handler that has started finishes
FairSpec ==
  /\ Init /\ [][Next]_vars
  /\ WF_vars(MainStep)
  /\ WF_vars(UploadStep)
  /\ WF_vars(HandlerSet)

-----------------------------------------------------------------------------
(* Claims *)

IsPrefix(a, b) == Len(a) <= Len(b) /\ \A i \in 1..Len(a) : a[i] = b[i]

\* C1: segments are archived in exactly the order in which they were put on the
\* queue (recovered at construction, or appended by trigger_upload): the archived
\* sequence is at all times a prefix of the enqueued one, so no segment is archived
\* while one enqueued before it is still waiting.
C1_ArchivedInQueueOrder == IsPrefix(archLog, enqLog)

\* C1 witness: two segments archived, the endpoint has failed at least once, and
\* more segments are waiting.
C1_Witness ==
  /\ Len(archLog) >= 2
  /\ netFailed
  /\ Len(queue) >= 2

\* C2: every file in uploaded/ was answered 200 in a request made for that file.
C2_ArchivedOnlyAfterAck == uploaded \subseteq acked

\* C2 witness: a segment is archived after the endpoint had refused an earlier
\* request.
C2_Witness ==
  /\ uploaded # {}
  /\ netFailed
  /\ pc["upl"] = "d_pop"

\* a drain step that ends without success: the head could not be read, the endpoint
\* did not answer 200, or the move failed
FailedStep ==
  \/ pc["upl"] = "d_read" /\ pc'["upl"] \notin {"d_read", "d_move"}
  \/ pc["upl"] = "d_move" /\ pc'["upl"] \notin {"d_move", "d_pop"}

\* C3: a failing drain step leaves the queue, pending/ and uploaded/ as they were,
\* with the failing segment at the head of the queue, and ends the drain round.
C3_FailureLeavesAll ==
  [][FailedStep =>
       /\ queue' = queue
       /\ pending' = pending
       /\ uploaded' = uploaded
       /\ Head(queue') = ufile
       /\ pc'["upl"] \in {"u_clear", "done"}]_vars

\* C3 witness: a round has just ended on a refusal, with the refused segment still
\* in pending/ at the head of a queue of two.
C3_Witness ==
  /\ netFailed
  /\ pc["upl"] = "u_clear"
  /\ Len(queue) >= 2
  /\ Head(queue) = ufile
  /\ ufile \in pending
  /\ uploaded = {}

\* the process has gone through its whole shutdown: main() has returned from join()
CleanStop == pc["main"] = "stopped" /\ pc["upl"] = "done"

\* C4: eventual delivery in order, as the result of a finished run: when
\* BicycleSensor has stopped and the endpoint never failed, the queue is empty and
\* every segment that was enqueued or created is in uploaded/, archived in the
\* order of the queue.
C4_AllDeliveredAtStop ==
  (variant = "BicycleSensor" /\ CleanStop /\ ~netFailed) =>
     /\ queue = <<>>
     /\ archLog = enqLog
     /\ Range(created) \subseteq uploaded

\* the positions inside trigger_upload and the write_to_file it calls for the header
InTrigger(th) ==
  \/ pc[th] \in {"t_test", "t_close", "t_none", "t_append", "t_name", "t_alive",
                 "t_open", "t_header", "t_fail", "t_set"}
  \/ pc[th] \in {"w_test", "w_data", "w_nl"} /\ wret = "header"

\* C5: at most one segment file is open for writing, in every state.
C5_AtMostOneOpen == openCount \in {0, 1}

\* C5 witness: after a shutdown request the main thread and the upload thread are
\* both inside trigger_upload while the segment is still open.
C5_Witness ==
  /\ ~alive
  /\ InTrigger("main")
  /\ InTrigger("upl")
  /\ openCount = 1
  /\ IsOpen(file)

StrictlyAscending(q) == \A i, j \in 1..Len(q) : i < j => LexLess(q[i], q[j])

\* C6: as long as the new process has created no segment and archived nothing, the
\* queue is the list of the regular files of pending/ in ascending lexicographic
\* order: each regular file once, no other entry of the directory.
C6_QueueRecovered ==
  (pc["main"] = "m_init" /\ archLog = <<>>) =>
     /\ StrictlyAscending(queue)
     /\ Range(queue) = pending
     /\ Range(queue) \cap dirs = {}

\* C6 witness: the constructor has listed a pending/ that holds the segments of
\* three consecutive seconds and has queued them oldest first.
C6_Witness ==
  /\ pc["main"] = "m_init"
  /\ queue = <<Format(0), Format(1), Format(2)>>
  /\ pending = Range(queue)

\* the segments created so far and not archived, in the order of their creation
Unarchived == SelectSeq(created, LAMBDA n : n \notin uploaded)

\* the queue that a restart would build from the directory as it is now
Recovered == RecoverQueue(pending, dirs)

C8_OneRotateOneDrain ==
  Stopped => (trigAfter = 1 /\ drainAfter = 1)

\* C9: when main() has returned from join() and the upload thread has finished, the
\* segment that was open at the shutdown request has been appended to the queue and
\* a drain round has begun after that append.
C9_LastSegmentFlushed ==
  (CleanStop /\ lastSeg # <<>>) => (lastPushed /\ lastDrained)

\* C10: shutdown terminates, as a property of finite runs: once the termination
\* request has cleared _alive, and unless an exception has ended the main thread,
\* the process is never stuck short of the stopped state: as long as a thread has
\* not finished some step is possible; in particular the upload thread never
\* waits on an event that nobody is left to set.
C10_NeverStuck ==
  (~alive /\ pc["main"] # "dead") => (Stopped \/ ENABLED Next)

\* the main thread has written the text of a measurement record and not yet its
\* terminating newline
MidRecord == pc["main"] = "w_nl" /\ wret = "meas"

\* C11: a segment is never closed while the producer is in the middle of a record:
\* whenever the main thread stands between the two writes of write_to_file, the
\* segment it is writing to is still open.
C11_NeverMidRecord == MidRecord => IsOpen(file)

\* the main thread returns from a trigger_upload() that main()'s loop called with a
\* segment open, and no shutdown was requested up to the return
RotateReturns ==
  /\ pc["main"] = "t_set"
  /\ pc'["main"] = "m_loop"
  /\ phase = "loop"
  /\ obs.prev # <<>>
  /\ alive'

\* the main thread pushes in such a call, and no shutdown was requested so far
RotatePushes ==
  /\ pc["main"] = "t_append"
  /\ pc'["main"] = "t_name"
  /\ phase = "loop"
  /\ obs.prev # <<>>
  /\ alive

\* the new segment is open under the name of the current second
NewSegmentOpen ==
  /\ IsOpen(file')
  /\ file'[1].name = Format(clock)
  /\ fname = Format(clock)

\* C12 as stated: when rotate() returns, the previous segment has been closed, then
\* pushed, and is the last element of the queue; a new segment named by the
\* current timestamp has been opened and its header written; the signal is set.
C12_RotatePostcondition ==
  [][RotateReturns =>
       /\ obs.ev = <<"close", "push", "open", "header">>
       /\ queue' # <<>>
       /\ <<queue'[Len(queue')]>> = obs.prev
       /\ NewSegmentOpen
       /\ event']_vars

\* C12 amended: the call closes the previous segment, then appends it at the tail of
\* the queue as it is at the push, then, if the file can be opened, opens the new
\* segment under the name of the current second and writes its header, and
\* otherwise leaves no segment open; it returns with the signal set.
C12_RotateSteps ==
  [][/\ RotatePushes =>
          /\ obs.ev = <<"close">>
          /\ queue' = Append(queue, obs.prev[1])
     /\ RotateReturns =>
          /\ event'
          /\ \/ /\ obs.ev = <<"close", "push", "open", "header">>
                /\ NewSegmentOpen
             \/ /\ obs.ev = <<"close", "push">>
                /\ file' = <<>>]_vars

\* C12 witness: a rotation called from the loop with a segment open has closed and
\* pushed it, opened the next one and written its header, and is about to set the
\* signal and return, while the pushed segment still waits at the tail.
C12_Witness ==
  /\ pc["main"] = "t_set"
  /\ phase = "loop"
  /\ alive
  /\ obs.prev # <<>>
  /\ obs.ev = <<"close", "push", "open", "header">>
  /\ queue # <<>>
  /\ <<queue[Len(queue)]>> = obs.prev
  /\ IsOpen(file)

\* the upload thread leaves the position lbl
Leaves(lbl) == pc["upl"] = lbl /\ pc'["upl"] # lbl

\* C13: after the endpoint has answered 200 for the head segment, the next step of
\* the upload thread moves that segment from pending/ to uploaded/, the step after
\* it removes exactly the head of the queue, which is that segment, and leaves the
\* other entries in their order, and the round goes on with the test of the queue.
C13_SuccessStep ==
  [][/\ Leaves("d_move") =>
          /\ pc'["upl"] = "d_pop"
          /\ ufile \in pending
          /\ pending' = pending \ {ufile}
          /\ uploaded' = uploaded \cup {ufile}
     /\ Leaves("d_pop") =>
          /\ queue # <<>>
          /\ Head(queue) = ufile
          /\ queue' = Tail(queue)
          /\ pc'["upl"] = "d_loop"]_vars

\* the first segment of the run was pushed with MaxRecords records in it and is the
\* only segment pushed so far, the endpoint has answered 200 for it, the drain
\* step that got the answer is over, and no shutdown has been requested
DeliveredFirst ==
  /\ watch = "delivery"
  /\ alive
  /\ Len(enqLog) = 1
  /\ obs.sent = MaxRecords
  /\ enqLog[1] \in acked
  /\ pc["upl"] \notin {"d_move", "d_pop"}

Creates(th) == pc[th] = "t_open" /\ pc'[th] = "t_header"

\* C15: every segment that trigger_upload creates has a name strictly greater than
\* the names of all segments created before it (in this run, or found in pending/
\* from an earlier run), and the file it opens does not exist in pending/ yet.
C15_NamesIncrease ==
  [][\A th \in Threads :
        Creates(th) =>
           /\ \A n \in Range(created) : LexLess(n, fname)
           /\ fname \notin pending]_vars

\* both loops are still running: no thread has died, the main thread has not left
\* its while loop and the upload thread has not left its own
LoopsRunning ==
  /\ pc["main"] # "dead"
  /\ phase # "final"
  /\ pc["upl"] \notin {"dead", "done"}
  /\ ~ufinal

\* C16: as long as no termination is requested (the alive flag stays true and no
\* KeyboardInterrupt is raised), no step ends a loop: after a failed open or write,
\* a failed upload or an exception of write_measurement both loops are still
\* running.
C16_FaultsKeepLoops ==
  [][(LoopsRunning /\ alive' /\ ~KeyboardInterrupt) => LoopsRunning']_vars

\* C16 witness: the process is alive after the endpoint has failed and the last
\* open has failed: the main thread is at the head of its loop with no segment, the
\* upload thread is waiting again with the refused segment still queued.
C16_Witness ==
  /\ alive
  /\ netFailed
  /\ file = <<>>
  /\ phase = "loop"
  /\ pc["main"] = "m_loop"
  /\ pc["upl"] = "u_wait"
  /\ queue # <<>>
  /\ nrot > 0

\* thread th pushes a name onto the queue
Pushes(th) == pc[th] = "t_append" /\ pc'[th] = "t_name"

\* the main thread returns from a trigger_upload() whose open() failed, and no
\* shutdown was requested up to the return
FailedRotateReturns ==
  /\ pc["main"] = "t_set"
  /\ pc'["main"] \notin {"t_set", "dead"}
  /\ fname \in obs.failed
  /\ alive'

\* C17: a trigger_upload() whose open() failed returns with no segment open and
\* with the signal set; no push ever pushes a name whose open() failed, unless a
\* later open() of that name has succeeded; and a writer without a segment gets
\* one only by an open() that succeeds.
C17_OpenFailure ==
  [][/\ FailedRotateReturns => (file' = <<>> /\ event')
     /\ \A th \in Threads : Pushes(th) => fname \notin obs.failed
     /\ (file = <<>> /\ file' # <<>>) => \E th \in Threads : Creates(th)]_vars

\* C17 witness: the open() of a rotation from the main loop has failed after the
\* previous segment was pushed, and the call is about to set the signal and return
\* with no segment open.
C17_Witness ==
  /\ pc["main"] = "t_set"
  /\ phase = "loop"
  /\ alive
  /\ fname \in obs.failed
  /\ obs.ev = <<"close", "push">>
  /\ file = <<>>
  /\ fname \notin Range(queue)

\* the main thread is about to append a measurement while no segment is open:
\* BicycleSensor at the test of write_to_file(), Sensor at the write of main()
AppendsUnopened ==
  /\ file = <<>>
  /\ alive
  /\ hpc = "idle"
  /\ \/ variant = "BicycleSensor" /\ pc["main"] = "w_test" /\ wret = "meas"
     \/ variant = "Sensor" /\ pc["main"] = "m_loop"

\* the append returns to the rest of the iteration and has changed nothing
AppendDropped ==
  /\ pc'["main"] = "m_time"
  /\ pc'["upl"] = pc["upl"]
  /\ UNCHANGED <<shared, disk>>

\* C18: an append while no segment is open raises no error and changes neither a
\* file, the queue, the signal nor the alive flag: the iteration goes on to its
\* interval check.
C18_AppendUnopenedNoOp == AppendsUnopened => ENABLED (Next /\ AppendDropped)

\* the positions of the upload thread inside _upload_data()
DrainLabels == {"d_loop", "d_read", "d_move", "d_pop"}

\* the upload thread enters _upload_data()
RoundBegins == pc["upl"] \notin DrainLabels /\ pc'["upl"] \in DrainLabels

\* the upload thread leaves the _upload_data() that its loop called
RoundEnds == pc["upl"] \in DrainLabels /\ pc'["upl"] \notin DrainLabels /\ ~ufinal

\* C19: a drain round of the loop begins only from a wait() that found the signal
\* set; the one round outside the loop (BicycleSensor, after shutdown) follows the
\* set() of the uploader's own trigger_upload(); a round of the loop, failed or
\* not, is followed by clear() and then by the loop test, so that no request is
\* made again before the signal has been set after the clear().
C19_RetryOnlyOnSignal ==
  [][/\ RoundBegins =>
          /\ pc'["upl"] = "d_loop"
          /\ \/ pc["upl"] = "u_wait" /\ event /\ ~ufinal
             \/ pc["upl"] = "t_set" /\ event' /\ ufinal /\ ~alive
                /\ variant = "BicycleSensor"
     /\ RoundEnds => pc'["upl"] \in {"u_clear", "dead"}
     /\ Leaves("u_clear") => (~event' /\ pc'["upl"] = "u_loop")
     /\ Leaves("u_loop") => pc'["upl"] \in {"u_wait", "t_test", "done"}
     /\ Leaves("d_read") => pc["upl"] \in DrainLabels]_vars

\* C19 witness: a round has ended with a refused request, the signal has been
\* cleared, the failed segment is still queued, and the uploader is suspended in
\* wait() while the main loop is running.
C19_Witness ==
  /\ netFailed
  /\ pc["upl"] = "u_wait"
  /\ ~event
  /\ alive
  /\ queue # <<>>
  /\ Head(queue) \in pending
  /\ Head(queue) \notin acked
  /\ pc["main"] = "m_loop"

\* C20: after the file of the head of the queue has been deleted from pending/, a
\* drain round that the loop of a running process begins afterwards gets past that
\* head: when the round ends, the head of the queue is no longer a name that
\* pending/ does not hold.
C20_RemovedHeadUnblocks ==
  [][(watch = "removed" /\ alive /\ RoundEnds) =>
        (queue' = <<>> \/ Head(queue') \in pending')]_vars

\* the threads that are inside _upload_data()
Draining == {th \in Threads : pc[th] \in DrainLabels}

\* C21: at most one thread is inside _upload_data() at any time, and it is the
\* upload thread: the main thread never executes a drain step.
C21_SingleConsumer == Cardinality(Draining) <= 1 /\ Draining \subseteq {"upl"}

\* C21 witness: the upload thread is about to make a request while the main
\* thread, in a rotation from its loop, is about to push onto the queue.
C21_Witness ==
  /\ pc["upl"] = "d_read"
  /\ pc["main"] = "t_append"
  /\ phase = "loop"
  /\ alive

\* C22: no segment name is in pending/ and in uploaded/ at the same time.
C22_MovedNotCopied == pending \cap uploaded = {}

\* a directory that the constructor needs is not there and could not be created,
\* and the constructor is past the statement that was to create it
StartupFault ==
  \/ locs["pending"] \in {"file", "blocked"} /\ pc["main"] # "m_mkp"
  \/ locs["uploaded"] \in {"file", "blocked"} /\ pc["main"] \notin {"m_mkp", "m_mku"}

\* C23: after a startup fault the constructor does not get past the statement
\* that lists pending/ and ends in an exception: the upload thread is never
\* started, the queue is never filled, and no segment is ever named or opened.
C23_StartupFaultFatal ==
  StartupFault =>
     /\ pc["main"] \in {"m_mku", "m_new", "dead"}
     /\ pc["upl"] = "u_new"
     /\ queue = <<>>
     /\ file = <<>>
     /\ fname = <<>>

\* the trigger_upload() that thread th is executing began after the shutdown
\* request: the uploader's, the one that follows the loop of main(), and one that
\* an iteration of the loop still makes after the request
Late(th) == th = "upl" \/ phase = "final" \/ obs.late

\* C24: a trigger_upload() that begins after the shutdown request opens no segment;
\* when main() has returned and the upload thread has ended no segment is open; and
\* once both threads have ended nothing happens any more.
C24_StoppedIsClean ==
  [][/\ \A th \in Threads : Creates(th) => ~Late(th)
     /\ (Stopped' /\ pc'["main"] = "stopped") => ~IsOpen(file')
     /\ ~Stopped]_vars

\* the upload thread is suspended in wait() with the signal clear, in a process
\* that runs its measurement loop without a shutdown request, and no set() is under
\* way: the main thread is not inside a trigger_upload()
Suspended ==
  /\ pc["upl"] = "u_wait"
  /\ ~event
  /\ alive
  /\ hpc = "idle"
  /\ phase = "loop"
  /\ pc["main"] # "dead"
  /\ ~InTrigger("main")

\* C25: whenever the upload thread is suspended with no set() under way,
\* _upload_data() has looked at the queue since the main thread's last push: no
\* pushed segment waits for a further rotation or a shutdown to be noticed.
C25_NoLostWakeup == Suspended => ~obs.unseen

\* C26: popleft() removes exactly the entry that the round peeked, after that
\* segment was acknowledged and moved, whatever was appended in between; and the
\* queue changes in no other way than by an append at its end or by that pop, so
\* no appended entry is dropped or overtaken.
C26_QueueSafeWithoutLock ==
  [][/\ Leaves("d_pop") =>
          /\ queue # <<>>
          /\ Head(queue) = ufile
          /\ ufile \in acked
          /\ ufile \in uploaded
          /\ queue' = Tail(queue)
     /\ queue' # queue =>
          \/ Leaves("d_pop")
          \/ \E th \in Threads : Pushes(th) /\ queue' = Append(queue, fname)]_vars

\* C26 witness: the upload thread is about to pop the entry it peeked, and the main
\* thread has appended another one since that peek.
C26_Witness ==
  /\ pc["upl"] = "d_pop"
  /\ obs.unseen
  /\ Len(queue) >= 2
  /\ Head(queue) = ufile
  /\ ufile \in uploaded

\* C27: no name is in the upload queue twice.
C27_NoDuplicateInQueue ==
  \A i, j \in 1..Len(queue) : queue[i] = queue[j] => i = j

\* C28: the segment that is open for writing is never named by an entry of the
\* queue, and no open() creates or truncates a file that an entry of the queue
\* names.
C28_QueuedSegmentsFrozen ==
  [][/\ IsOpen(file') => file'[1].name \notin Range(queue')
     /\ \A th \in Threads : Creates(th) => fname \notin Range(queue)]_vars

\* no thread is inside _upload_data() or inside trigger_upload()
Quiet ==
  /\ pc["upl"] \notin DrainLabels
  /\ \A th \in Threads : ~InTrigger(th)

\* C29: whenever no drain step and no rotation is under way, every entry of the
\* queue names a file that is in pending/ and not in uploaded/, and every file of
\* pending/ is in the queue or is the open segment.
C29_QueueMatchesPending ==
  Quiet =>
     /\ \A n \in Range(queue) : n \in pending /\ n \notin uploaded
     /\ \A n \in pending : n \in Range(queue) \/ (IsOpen(file) /\ file[1].name = n)

\* the head of the queue is a file that an earlier run left in pending/, and
\* _upload_data() has not taken any entry from the queue yet
AwaitsFirstDrain ==
  /\ queue # <<>>
  /\ Head(queue) \in OldFiles
  /\ ufile = <<>>
  /\ pc["upl"] \in {"u_loop", "u_wait"}

\* the constructor returns from its trigger_upload()
ConstructorReturns == pc["main"] = "t_set" /\ phase = "init" /\ pc'["main"] = "m_loop"

\* C30: the trigger_upload() of the constructor pushes nothing and returns with
\* the signal set; and as long as the recovered files have had no drain attempt
\* after the constructor has returned, the signal stays set, so that the upload
\* thread enters a round whenever it runs, before any periodic rotation.
C30_StartupDrain ==
  [][/\ phase = "init" => ~Pushes("main")
     /\ ConstructorReturns => event'
     /\ (phase' # "init" /\ AwaitsFirstDrain') => event']_vars

\* C30 witness: the upload thread is making the request for a recovered file while
\* the main loop runs and no periodic rotation has started.
C30_Witness ==
  /\ pc["upl"] = "d_read"
  /\ ufile \in OldFiles
  /\ nrot = 0
  /\ phase = "loop"
  /\ alive
  /\ ~InTrigger("main")

\* the main thread executes the test of a trigger_upload() that main()'s loop
\* called while the open segment holds its header and no record, and no shutdown
\* is requested
EmptyRotateBegins ==
  /\ watch = "delivery"
  /\ pc["main"] = "t_test"
  /\ pc'["main"] \notin {"t_test", "dead"}
  /\ phase = "loop"
  /\ IsOpen(file)
  /\ obs.recs = 0
  /\ alive'

\* the upload thread tests the queue while its only entry is a segment that was
\* pushed without a record and is the only segment pushed in this run
EmptyHeadTested ==
  /\ watch = "delivery"
  /\ Leaves("d_loop")
  /\ Len(enqLog) = 1
  /\ obs.sent = 0
  /\ queue = enqLog

\* C31 as stated: a rotation of a segment without records closes it, pushes it
\* and opens a new segment; the uploader takes the empty segment like any other.
C31_AlwaysCreate ==
  [][/\ EmptyRotateBegins => pc'["main"] = "t_close"
     /\ (watch = "delivery" /\ RotatePushes /\ obs.recs = 0) =>
          queue' = Append(queue, obs.prev[1])
     /\ (watch = "delivery" /\ RotateReturns /\ obs.sent = 0) =>
          /\ obs.ev = <<"close", "push", "open", "header">>
          /\ NewSegmentOpen
     /\ EmptyHeadTested => (pc'["upl"] = "d_read" /\ ufile' = enqLog[1])]_vars

\* C31 amended: the same, except that the rotation leaves no segment open when the
\* open() of the new segment fails.
C31_AlwaysCreateUnlessOpenFails ==
  [][/\ EmptyRotateBegins => pc'["main"] = "t_close"
     /\ (watch = "delivery" /\ RotatePushes /\ obs.recs = 0) =>
          queue' = Append(queue, obs.prev[1])
     /\ (watch = "delivery" /\ RotateReturns /\ obs.sent = 0) =>
          \/ /\ obs.ev = <<"close", "push", "open", "header">>
             /\ NewSegmentOpen
          \/ /\ obs.ev = <<"close", "push">>
             /\ file' = <<>>
     /\ EmptyHeadTested => (pc'["upl"] = "d_read" /\ ufile' = enqLog[1])]_vars

\* C31 witness: the first segment of the run was pushed without a record, has been
\* uploaded and archived, and the main loop writes to the segment opened after it.
C31_Witness ==
  /\ watch = "delivery"
  /\ alive
  /\ Len(enqLog) = 1
  /\ obs.sent = 0
  /\ enqLog[1] \in uploaded
  /\ queue = <<>>
  /\ pc["main"] = "m_loop"
  /\ IsOpen(file)
  /\ file[1].name # enqLog[1]

\* the upload thread is inside _upload_data(), the call of requests.post included
InRound == pc["upl"] \in DrainLabels \cup {"d_post"}

\* C32: every iteration of the loop of _upload_data() ends the round or removes
\* the head of the queue before the loop test is reached again, and inside a round
\* the upload thread can always take its next step: no call keeps it for ever.
C32_RoundTerminates ==
  /\ [](InRound => ENABLED UploadStep)
  /\ [][/\ Leaves("d_loop") => pc'["upl"] \in {"d_read", EndRound}
        /\ Leaves("d_read") => pc'["upl"] \in {"d_move", EndRound}
        /\ Leaves("d_move") => pc'["upl"] \in {"d_pop", EndRound}
        /\ Leaves("d_pop") => (pc'["upl"] = "d_loop" /\ Len(queue') < Len(queue))]_vars

====
